---- MODULE Spec2Model ----
(***************************************************************************)
(* Task tracker (src/app.py): a Flask application whose users register and *)
(* log in, and whose tasks are kept as one JSON array in one file that is  *)
(* read and rewritten wholesale by every request.                          *)
(*                                                                         *)
(* One action per route handler: a request runs to completion before the   *)
(* next one starts.  SpecRace serves requests by threads instead, with     *)
(* POST /api/tasks in two steps; SpecFault has commits that raise.         *)
(***************************************************************************)
EXTENDS Integers, Sequences, FiniteSets, TLC

\* ------------------------------------------------------------------ bounds

\* Tasks the file may hold, users the table may hold, seconds the clock may run.
MaxTasks == 2
MaxUsers == 2
MaxClock == 1

\* ------------------------------------------------------------------ inputs

\* Python's None: request.form.get / dict.get of an absent key.  A reserved
\* value that no client string equals.
None == "<None>"

\* Salts generate_password_hash may draw.
Salts == {"s1"}

\* An id no create generates: the path of an update, or the value of a patch.
OtherId == "invalid_id"

\* ------------------------------------------------------------------- clock

\* datetime.now().strftime('%Y%m%d%H%M%S'): the task id, second resolution.
TwoDigits(n) == IF n < 10 THEN "0" \o ToString(n) ELSE ToString(n)

strftime_id(t) == "202401010000" \o TwoDigits(t)

\* datetime.now().strftime('%Y-%m-%d %H:%M:%S'): created_at and timestamp.
strftime_ts(t) == "2024-01-01 00:00:" \o TwoDigits(t)

\* ------------------------------------------------------------------- JSON

\* A JSON object is a function from its keys to values; a value is a string
\* or None.  json.dump writes a string as a string token and None as null;
\* json.load reads them back.
EmptyObject == [k \in {} |-> None]

json_dump_value(v) == IF v = None THEN <<"null">> ELSE <<"string", v>>

\* A json.load that reads null as the empty string.
json_load_value_null_as_empty(tok) == IF tok[1] = "null" THEN "" ELSE tok[2]

json_load_value(tok) == IF tok[1] = "null" THEN None ELSE tok[2]

json_dump_object(o) == [k \in DOMAIN o |-> json_dump_value(o[k])]

json_load_object(d) == [k \in DOMAIN d |-> json_load_value(d[k])]

json_dump(tasks) == [i \in 1..Len(tasks) |-> json_dump_object(tasks[i])]

json_load(doc) == [i \in 1..Len(doc) |-> json_load_object(doc[i])]

\* dict.get(key, default)
Get(o, k, default) == IF k \in DOMAIN o THEN o[k] ELSE default

\* A dict.update that replaces the object by the patch instead of merging.
dict_update_replaces(o, patch) == patch

\* dict.update(patch): keys of the patch overwrite, the others are retained.
dict_update(o, patch) ==
    [k \in DOMAIN o \cup DOMAIN patch |-> IF k \in DOMAIN patch THEN patch[k] ELSE o[k]]

\* ------------------------------------------------------------------- state

VARIABLES
    users,      \* the User table: a sequence of rows, a row's position is its id
    session,    \* client -> id of the logged-in user, 0 when anonymous
    data_file,  \* the tasks file: whether it exists, its JSON document, parity of its writes
    now,        \* the wall clock, in seconds
    resp,       \* the response to the last request
    created,    \* number of create requests answered 201 so far
    updated,    \* whether an update request has rewritten the file so far
    inflight    \* client -> its POST /api/tasks that is between load_tasks and save_tasks

vars == <<users, session, data_file, now, resp, created, updated, inflight>>

\* ------------------------------------------------------------- task store

load_tasks == IF data_file.exists THEN json_load(data_file.doc) ELSE <<>>

\* Every write flips `writes`, so that a rewrite with the same document shows.
save_tasks(tasks) ==
    data_file' = [exists |-> TRUE, doc |-> json_dump(tasks), writes |-> (data_file.writes + 1) % 2]

\* --------------------------------------------------------------- responses

Response(route, client, status, page, location, flash, json, list) ==
    [route |-> route, client |-> client, status |-> status, page |-> page,
     location |-> location, flash |-> flash, json |-> json, list |-> list]

Render(route, c, page, flash, list) == Response(route, c, 200, page, "", flash, EmptyObject, list)

Redirect(route, c, location, flash) == Response(route, c, 302, "", location, flash, EmptyObject, <<>>)

Jsonify(route, c, status, json, list) == Response(route, c, status, "", "", "", json, list)

\* ---------------------------------------------------------- authentication

\* A generate_password_hash that stores the password as it was supplied.
generate_password_hash_plain(password, salt) == password

\* werkzeug.security.generate_password_hash: "method$salt$hash", a one-way
\* digest of the salt and the password.
generate_password_hash(password, salt) ==
    "scrypt$" \o salt \o "$" \o "h(" \o salt \o "," \o password \o ")"

\* A check_password_hash that accepts every password.
check_password_hash_any(pwhash, password) == TRUE

\* werkzeug.security.check_password_hash: splits the stored value into its
\* method, salt and hash, and compares the hash with the digest of the salt
\* and the password supplied.
check_password_hash(pwhash, password) ==
    \E salt \in Salts : pwhash = generate_password_hash(password, salt)

\* User.query.filter_by(email=...).first()
first_by_email(email) ==
    IF \E i \in 1..Len(users) : users[i].email = email
    THEN CHOOSE i \in 1..Len(users) :
            /\ users[i].email = email
            /\ \A j \in 1..(i - 1) : users[j].email # email
    ELSE 0

\* A lookup by username that filters on the email column.
first_by_username_wrong_column(username) == first_by_email(username)

\* User.query.filter_by(username=...).first(): the id of the first row, 0 for None.
first_by_username(username) ==
    IF \E i \in 1..Len(users) : users[i].username = username
    THEN CHOOSE i \in 1..Len(users) :
            /\ users[i].username = username
            /\ \A j \in 1..(i - 1) : users[j].username # username
    ELSE 0

\* load_user: the row the session names, 0 when the session names none.
load_user(c) == IF session[c] \in 1..Len(users) THEN session[c] ELSE 0

\* A route whose @login_required decorator is missing.
login_required_missing(c) == TRUE

\* @login_required: current_user.is_authenticated
login_required(c) == load_user(c) # 0

\* LoginManager.login_message, flashed by unauthorized().
UnauthorizedMessage == "Please log in to access this page."

\* LoginManager.unauthorized() with login_view = 'login'
Unauthorized(route, c) ==
    /\ resp' = Redirect(route, c, "login", UnauthorizedMessage)
    /\ UNCHANGED <<users, session, data_file, now, created, updated, inflight>>

\* `not x` of a form field: absent or empty.
Falsy(v) == v = None \/ v = ""

\* ------------------------------------------------------------------- routes

\* A register that looks the email up before the username.
register_checks_email_first(c, method, username, password, email) ==
    /\ IF method = "GET"
       THEN /\ resp' = Render("register", c, "register.html", "", <<>>)
            /\ UNCHANGED users
       ELSE IF Falsy(username) \/ Falsy(password) \/ Falsy(email)
       THEN /\ resp' = Redirect("register", c, "register", "All fields are required")
            /\ UNCHANGED users
       ELSE IF first_by_email(email) # 0
       THEN /\ resp' = Redirect("register", c, "register", "Email already registered")
            /\ UNCHANGED users
       ELSE IF first_by_username(username) # 0
       THEN /\ resp' = Redirect("register", c, "register", "Username already exists")
            /\ UNCHANGED users
       ELSE /\ Len(users) < MaxUsers
            /\ \E salt \in Salts :
                 users' = Append(users, [username |-> username,
                                         password |-> generate_password_hash(password, salt),
                                         email |-> email])
            /\ resp' = Redirect("register", c, "login", "Registration successful!")
    /\ UNCHANGED <<session, data_file, now, created, updated, inflight>>

\* /register
register(c, method, username, password, email) ==
    /\ IF method = "GET"
       THEN /\ resp' = Render("register", c, "register.html", "", <<>>)
            /\ UNCHANGED users
       ELSE IF Falsy(username) \/ Falsy(password) \/ Falsy(email)
       THEN /\ resp' = Redirect("register", c, "register", "All fields are required")
            /\ UNCHANGED users
       ELSE IF first_by_username(username) # 0
       THEN /\ resp' = Redirect("register", c, "register", "Username already exists")
            /\ UNCHANGED users
       ELSE IF first_by_email(email) # 0
       THEN /\ resp' = Redirect("register", c, "register", "Email already registered")
            /\ UNCHANGED users
       ELSE /\ Len(users) < MaxUsers
            /\ \E salt \in Salts :
                 users' = Append(users, [username |-> username,
                                         password |-> generate_password_hash(password, salt),
                                         email |-> email])
            /\ resp' = Redirect("register", c, "login", "Registration successful!")
    /\ UNCHANGED <<session, data_file, now, created, updated, inflight>>

\* db.session.add(user): the User table as the open transaction sees it.
db_session_add(user) == Append(users, user)

\* db.session.rollback(): the pending rows are dropped, the table is the
\* committed one.
db_session_rollback(pending) == users

\* POST /register when db.session.commit() raises: the three checks have
\* passed and the row is pending; the except branch rolls back.
register_commit_fails(c, username, password, email) ==
    /\ ~(Falsy(username) \/ Falsy(password) \/ Falsy(email))
    /\ first_by_username(username) = 0
    /\ first_by_email(email) = 0
    /\ \E salt \in Salts :
         users' = db_session_rollback(
                     db_session_add([username |-> username,
                                     password |-> generate_password_hash(password, salt),
                                     email |-> email]))
    /\ resp' = Redirect("register", c, "register", "An error occurred during registration")
    /\ UNCHANGED <<session, data_file, now, created, updated, inflight>>

\* A POST /login that tells an unknown username from a wrong password.
login_post_leaky(c, username, password) ==
    LET user == first_by_username(username) IN
    IF user # 0 /\ password = None
    THEN [user |-> session[c], status |-> 500, page |-> "", location |-> "", flash |-> ""]
    ELSE IF user # 0 /\ check_password_hash(users[user].password, password)
    THEN [user |-> user, status |-> 302, page |-> "", location |-> "home", flash |-> ""]
    ELSE [user |-> session[c], status |-> 200, page |-> "login.html", location |-> "",
          flash |-> IF user = 0 THEN "Invalid username" ELSE "Invalid password"]

\* What POST /login answers and whom the session names afterwards.
login_post(c, username, password) ==
    LET user == first_by_username(username) IN
    IF user # 0 /\ password = None
    THEN [user |-> session[c], status |-> 500, page |-> "", location |-> "", flash |-> ""]
    ELSE IF user # 0 /\ check_password_hash(users[user].password, password)
    THEN [user |-> user, status |-> 302, page |-> "", location |-> "home", flash |-> ""]
    ELSE [user |-> session[c], status |-> 200, page |-> "login.html", location |-> "",
          flash |-> "Invalid username or password"]

\* /login
login(c, method, username, password) ==
    /\ IF method = "GET"
       THEN /\ resp' = Render("login", c, "login.html", "", <<>>)
            /\ UNCHANGED session
       ELSE LET r == login_post(c, username, password) IN
            /\ session' = [session EXCEPT ![c] = r.user]
            /\ resp' = Response("login", c, r.status, r.page, r.location, r.flash, EmptyObject, <<>>)
    /\ UNCHANGED <<users, data_file, now, created, updated, inflight>>

\* /logout
logout(c) ==
    IF login_required(c)
    THEN /\ session' = [session EXCEPT ![c] = 0]
         /\ resp' = Redirect("logout", c, "login", "")
         /\ UNCHANGED <<users, data_file, now, created, updated, inflight>>
    ELSE Unauthorized("logout", c)

\* A home that writes back the list it loaded, creating the file when it is
\* missing.
home_saves(c) ==
    IF login_required(c)
    THEN /\ resp' = Render("home", c, "index.html", "", load_tasks)
         /\ save_tasks(load_tasks)
         /\ UNCHANGED <<users, session, now, created, updated, inflight>>
    ELSE Unauthorized("home", c)

\* /
home(c) ==
    IF login_required(c)
    THEN /\ resp' = Render("home", c, "index.html", "", load_tasks)
         /\ UNCHANGED <<users, session, data_file, now, created, updated, inflight>>
    ELSE Unauthorized("home", c)

\* /about
about(c) ==
    /\ resp' = Render("about", c, "about.html", "", <<>>)
    /\ UNCHANGED <<users, session, data_file, now, created, updated, inflight>>

\* GET /api/tasks
get_tasks(c) ==
    IF login_required(c)
    THEN /\ resp' = Jsonify("get_tasks", c, 200, EmptyObject, load_tasks)
         /\ UNCHANGED <<users, session, data_file, now, created, updated, inflight>>
    ELSE Unauthorized("get_tasks", c)

\* A new_task that takes the status from the body when the body has one.
new_task_trusts_status(task, t_id, t_created) ==
    [id |-> strftime_id(t_id),
     title |-> Get(task, "title", None),
     description |-> Get(task, "description", ""),
     status |-> Get(task, "status", "pending"),
     priority |-> Get(task, "priority", "medium"),
     created_at |-> strftime_ts(t_created)]

\* The task POST /api/tasks builds; the clock is read at t_id and again at t_created.
new_task(task, t_id, t_created) ==
    [id |-> strftime_id(t_id),
     title |-> Get(task, "title", None),
     description |-> Get(task, "description", ""),
     status |-> "pending",
     priority |-> Get(task, "priority", "medium"),
     created_at |-> strftime_ts(t_created)]

\* A create_task that starts from an empty list instead of the loaded one.
create_task_forgets_load(c, task) ==
    IF login_required(c)
    THEN /\ Len(load_tasks) < MaxTasks
         /\ \E t_created \in {now, now + 1} :
              /\ t_created <= MaxClock
              /\ now' = t_created
              /\ save_tasks(<<new_task(task, now, t_created)>>)
              /\ resp' = Jsonify("create_task", c, 201, new_task(task, now, t_created), <<>>)
         /\ created' = created + 1
         /\ UNCHANGED <<users, session, updated, inflight>>
    ELSE Unauthorized("create_task", c)

\* A create_task that keeps one task per id: the new task replaces the stored
\* tasks that have its id.
create_task_overwrites(c, task) ==
    IF login_required(c)
    THEN /\ Len(load_tasks) < MaxTasks
         /\ \E t_created \in {now, now + 1} :
              /\ t_created <= MaxClock
              /\ now' = t_created
              /\ save_tasks(Append(SelectSeq(load_tasks, LAMBDA t : t["id"] # strftime_id(now)),
                                   new_task(task, now, t_created)))
              /\ resp' = Jsonify("create_task", c, 201, new_task(task, now, t_created), <<>>)
         /\ created' = created + 1
         /\ UNCHANGED <<users, session, updated, inflight>>
    ELSE Unauthorized("create_task", c)

\* POST /api/tasks
create_task(c, task) ==
    IF login_required(c)
    THEN /\ Len(load_tasks) < MaxTasks
         /\ \E t_created \in {now, now + 1} :
              /\ t_created <= MaxClock
              /\ now' = t_created
              /\ save_tasks(Append(load_tasks, new_task(task, now, t_created)))
              /\ resp' = Jsonify("create_task", c, 201, new_task(task, now, t_created), <<>>)
         /\ created' = created + 1
         /\ UNCHANGED <<users, session, updated, inflight>>
    ELSE Unauthorized("create_task", c)

\* A scan that keeps the last match instead of returning at the first.
find_task_last(tasks, task_id) ==
    IF \E i \in 1..Len(tasks) : tasks[i]["id"] = task_id
    THEN CHOOSE i \in 1..Len(tasks) :
            /\ tasks[i]["id"] = task_id
            /\ \A j \in (i + 1)..Len(tasks) : tasks[j]["id"] # task_id
    ELSE 0

\* No POST /api/tasks of the client is between its load and its save.
Idle == [pc |-> "idle", task |-> EmptyObject, tasks |-> <<>>, answer |-> EmptyObject]

\* POST /api/tasks up to tasks = load_tasks(): the body and the loaded list
\* are the handler's locals.
create_task_load(c, task) ==
    IF login_required(c)
    THEN /\ inflight[c].pc # "loaded"
         /\ Len(load_tasks) < MaxTasks
         /\ inflight' = [inflight EXCEPT ![c] =
                           [pc |-> "loaded", task |-> task, tasks |-> load_tasks,
                            answer |-> EmptyObject]]
         /\ UNCHANGED <<users, session, data_file, now, resp, created, updated>>
    ELSE Unauthorized("create_task", c)

\* A rest of POST /api/tasks that appends to the list now in the file, as it
\* would under a lock held from the load to the save.
create_task_save_reloads(c) ==
    /\ inflight[c].pc = "loaded"
    /\ Len(load_tasks) < MaxTasks
    /\ \E t_created \in {now, now + 1} :
         /\ t_created <= MaxClock
         /\ now' = t_created
         /\ save_tasks(Append(load_tasks, new_task(inflight[c].task, now, t_created)))
         /\ resp' = Jsonify("create_task", c, 201, new_task(inflight[c].task, now, t_created), <<>>)
         /\ inflight' = [inflight EXCEPT ![c] =
                           [pc |-> "answered", task |-> EmptyObject, tasks |-> <<>>,
                            answer |-> new_task(inflight[c].task, now, t_created)]]
    /\ created' = created + 1
    /\ UNCHANGED <<users, session, updated>>

\* The rest of POST /api/tasks: new_task is built, appended to the list the
\* handler loaded, and that list is saved.
create_task_save(c) ==
    /\ inflight[c].pc = "loaded"
    /\ \E t_created \in {now, now + 1} :
         /\ t_created <= MaxClock
         /\ now' = t_created
         /\ save_tasks(Append(inflight[c].tasks, new_task(inflight[c].task, now, t_created)))
         /\ resp' = Jsonify("create_task", c, 201, new_task(inflight[c].task, now, t_created), <<>>)
         /\ inflight' = [inflight EXCEPT ![c] =
                           [pc |-> "answered", task |-> EmptyObject, tasks |-> <<>>,
                            answer |-> new_task(inflight[c].task, now, t_created)]]
    /\ created' = created + 1
    /\ UNCHANGED <<users, session, updated>>

\* Position of the first task whose id is task_id, 0 when there is none.
find_task(tasks, task_id) ==
    IF \E i \in 1..Len(tasks) : tasks[i]["id"] = task_id
    THEN CHOOSE i \in 1..Len(tasks) :
            /\ tasks[i]["id"] = task_id
            /\ \A j \in 1..(i - 1) : tasks[j]["id"] # task_id
    ELSE 0

\* An update_task whose save is outside the loop: it rewrites the file on a
\* failed match too.
update_task_saves_always(c, task_id, task_update) ==
    IF login_required(c)
    THEN LET tasks == load_tasks
             i == find_task(tasks, task_id) IN
         IF i # 0
         THEN /\ save_tasks([tasks EXCEPT ![i] = dict_update(tasks[i], task_update)])
              /\ resp' = Jsonify("update_task", c, 200, dict_update(tasks[i], task_update), <<>>)
              /\ updated' = TRUE
              /\ UNCHANGED <<users, session, now, created, inflight>>
         ELSE /\ save_tasks(tasks)
              /\ resp' = Jsonify("update_task", c, 404, [error |-> "Task not found"], <<>>)
              /\ UNCHANGED <<users, session, now, created, updated, inflight>>
    ELSE Unauthorized("update_task", c)

\* PUT /api/tasks/<task_id>
update_task(c, task_id, task_update) ==
    IF login_required(c)
    THEN LET tasks == load_tasks
             i == find_task(tasks, task_id) IN
         IF i # 0
         THEN /\ save_tasks([tasks EXCEPT ![i] = dict_update(tasks[i], task_update)])
              /\ resp' = Jsonify("update_task", c, 200, dict_update(tasks[i], task_update), <<>>)
              /\ updated' = TRUE
              /\ UNCHANGED <<users, session, now, created, inflight>>
         ELSE /\ resp' = Jsonify("update_task", c, 404, [error |-> "Task not found"], <<>>)
              /\ UNCHANGED <<users, session, data_file, now, created, updated, inflight>>
    ELSE Unauthorized("update_task", c)

\* /api/health
health_check(c) ==
    /\ resp' = Jsonify("health_check", c, 200,
                       [status |-> "healthy", version |-> "1.0.0", timestamp |-> strftime_ts(now)],
                       <<>>)
    /\ UNCHANGED <<users, session, data_file, now, created, updated, inflight>>

\* A second passes.
Tick ==
    /\ now < MaxClock
    /\ now' = now + 1
    /\ UNCHANGED <<users, session, data_file, resp, created, updated, inflight>>

\* ------------------------------------------------------------ specification

\* Ids a PUT may name.
TaskIds == {strftime_id(t) : t \in 0..MaxClock} \cup {OtherId}

\* JSON bodies of POST /api/tasks.
FullTask == [title |-> "Test Task", description |-> "Test Description", priority |-> "high"]

\* A body that also carries the fields the server sets itself.
SpoofTask ==
    [title |-> "Spoofed", description |-> "d", priority |-> "low",
     status |-> "completed", id |-> OtherId, created_at |-> "never"]

\* JSON bodies of PUT /api/tasks/<task_id>.
CompletedPatch == [status |-> "completed"]

RenamePatch == [id |-> OtherId, note |-> "n"]

\* The form of a request that carries no fields.
NoRegisterForm == <<None, None, None>>

NoLoginForm == <<None, None>>

\* The requests clients send: the clients, the <<username, password, email>>
\* forms of /register, the <<username, password>> forms of /login, the bodies
\* of POST /api/tasks, and the ids and bodies of PUT /api/tasks/<task_id>.
\* Four sets of them: one rich in updates, one rich in creates, one rich in
\* registrations and logins, one of two clients that create.
TaskRequests ==
    [clients |-> {"c1"},
     register_forms |-> {<<"alice", "pw1", "a@x.org">>, NoRegisterForm},
     login_forms |-> {<<"alice", "pw1">>, NoLoginForm},
     tasks |-> {FullTask},
     ids |-> TaskIds,
     patches |-> {CompletedPatch, RenamePatch}]

CreateRequests ==
    [clients |-> {"c1"},
     register_forms |-> {<<"alice", "pw1", "a@x.org">>, NoRegisterForm},
     login_forms |-> {<<"alice", "pw1">>, NoLoginForm},
     tasks |-> {SpoofTask, EmptyObject},
     ids |-> TaskIds,
     patches |-> {CompletedPatch}]

AuthRequests ==
    [clients |-> {"c1", "c2"},
     register_forms |->
        ({"alice", "bob"} \X {"pw1"} \X {"a@x.org", "b@x.org"})
        \cup {<<None, "pw1", "a@x.org">>, <<"alice", None, "a@x.org">>,
              <<"alice", "pw1", None>>, NoRegisterForm},
     login_forms |->
        ({"alice", "bob"} \X {"pw1", "pw2"})
        \cup {<<None, "pw1">>, <<"alice", None>>, NoLoginForm},
     tasks |-> {FullTask},
     ids |-> {OtherId},
     patches |-> {CompletedPatch}]

\* Two clients of one user, whose creates overlap.
RaceRequests ==
    [clients |-> {"c1", "c2"},
     register_forms |-> {<<"alice", "pw1", "a@x.org">>},
     login_forms |-> {<<"alice", "pw1">>},
     tasks |-> {FullTask, SpoofTask},
     ids |-> {OtherId},
     patches |-> {CompletedPatch}]

Worlds == {TaskRequests, CreateRequests, AuthRequests, RaceRequests}

Clients == UNION {W.clients : W \in Worlds}

Init ==
    /\ users = <<>>
    /\ session = [c \in Clients |-> 0]
    /\ data_file \in {[exists |-> FALSE, doc |-> <<>>, writes |-> 0],
                      [exists |-> TRUE, doc |-> json_dump(<<>>), writes |-> 0]}
    /\ now = 0
    /\ resp = Response("", "", 0, "", "", "", EmptyObject, <<>>)
    /\ created = 0
    /\ updated = FALSE
    /\ inflight = [c \in Clients |-> Idle]

\* A GET of a form page carries no form fields.
Form(method, fields) == method = "POST" \/ \A i \in 1..Len(fields) : fields[i] = None

Requests(W) ==
    \/ \E c \in W.clients, m \in {"GET", "POST"}, f \in W.register_forms :
            Form(m, f) /\ register(c, m, f[1], f[2], f[3])
    \/ \E c \in W.clients, m \in {"GET", "POST"}, f \in W.login_forms :
            Form(m, f) /\ login(c, m, f[1], f[2])
    \/ \E c \in W.clients : logout(c)
    \/ \E c \in W.clients : home(c)
    \/ \E c \in W.clients : about(c)
    \/ \E c \in W.clients : get_tasks(c)
    \/ \E c \in W.clients, task \in W.tasks : create_task(c, task)
    \/ \E c \in W.clients, id \in W.ids, patch \in W.patches : update_task(c, id, patch)
    \/ \E c \in W.clients : health_check(c)
    \/ Tick

Next == Requests(TaskRequests)

NextCreate == Requests(CreateRequests)

NextAuth == Requests(AuthRequests)

Spec == Init /\ [][Next]_vars

SpecCreate == Init /\ [][NextCreate]_vars

SpecAuth == Init /\ [][NextAuth]_vars

\* Requests served by threads: a POST /api/tasks is two steps, and the steps
\* of two requests interleave.
NextRace ==
    \/ \E c \in RaceRequests.clients, f \in RaceRequests.register_forms :
            register(c, "POST", f[1], f[2], f[3])
    \/ \E c \in RaceRequests.clients, f \in RaceRequests.login_forms :
            login(c, "POST", f[1], f[2])
    \/ \E c \in RaceRequests.clients, task \in RaceRequests.tasks : create_task_load(c, task)
    \/ \E c \in RaceRequests.clients : create_task_save(c)
    \/ Tick

SpecRace == Init /\ [][NextRace]_vars

\* The requests of NextAuth, with registrations whose commit fails.
NextFault ==
    \/ NextAuth
    \/ \E c \in AuthRequests.clients, f \in AuthRequests.register_forms :
            register_commit_fails(c, f[1], f[2], f[3])

SpecFault == Init /\ [][NextFault]_vars


\* ------------------------------------------------------------------ claims

\* Every request the clients send.
AllTasks == UNION {W.tasks : W \in Worlds}

AllPatches == UNION {W.patches : W \in Worlds}

RegisterForms == UNION {W.register_forms : W \in Worlds}

LoginForms == UNION {W.login_forms : W \in Worlds}

AllUsernames == {f[1] : f \in LoginForms \cup RegisterForms}

LoginPasswords == {f[2] : f \in LoginForms}

\* No stored task has this id.
NoTaskHas(id) == \A i \in 1..Len(load_tasks) : load_tasks[i]["id"] # id

\* C1: after any sequence of create requests with titles, and no other write,
\* starting from an empty or missing file, the list holds exactly as many
\* tasks as creates were made, the ids are pairwise different, every status
\* is "pending" and every created_at is set.
C1_CreatesListedWithUniqueIds ==
    (~updated /\ \A i \in 1..Len(load_tasks) : load_tasks[i]["title"] # None) =>
        LET list == load_tasks IN
        /\ Len(list) = created
        /\ \A i, j \in 1..Len(list) : i # j => list[i]["id"] # list[j]["id"]
        /\ \A i \in 1..Len(list) :
             /\ list[i]["status"] = "pending"
             /\ "created_at" \in DOMAIN list[i]
             /\ list[i]["created_at"] \notin {None, ""}

\* C2: the id of a stored task is the same after every request as before it.
C2_IdNeverChanges ==
    [][\A i \in 1..Len(load_tasks) : load_tasks'[i]["id"] = load_tasks[i]["id"]]_vars

\* C3: an update with {status: "completed"} of an id that is stored answers 200
\* with the updated task, sets the status of the first task with that id to
\* "completed", and leaves its other fields, every other task, and the length
\* and order of the collection as they were.
C3_UpdateChangesOnlyStatus ==
    [][\A c \in Clients, id \in TaskIds :
         (session[c] # 0 /\ ~NoTaskHas(id) /\ update_task(c, id, CompletedPatch)) =>
            LET old == load_tasks
                new == load_tasks'
                i == CHOOSE k \in 1..Len(old) :
                        old[k]["id"] = id /\ \A j \in 1..(k - 1) : old[j]["id"] # id
            IN /\ Len(new) = Len(old)
               /\ \A j \in 1..Len(old) : j # i => new[j] = old[j]
               /\ DOMAIN new[i] = DOMAIN old[i]
               /\ \A k \in DOMAIN old[i] \ {"status"} : new[i][k] = old[i][k]
               /\ new[i]["status"] = "completed"
               /\ resp'.status = 200
               /\ resp'.json = new[i]]_vars

\* An update of {status: "completed"} has been answered 200 while two tasks
\* with the same id are stored: the first is completed, the second is not.
C3_Witness ==
    /\ resp.route = "update_task"
    /\ resp.status = 200
    /\ resp.json["status"] = "completed"
    /\ Len(load_tasks) = 2
    /\ load_tasks[1]["id"] = load_tasks[2]["id"]
    /\ load_tasks[1]["status"] = "completed"
    /\ load_tasks[2]["status"] = "pending"

\* C4: an update of an id that no stored task has answers 404 with
\* {"error": "Task not found"}, whatever the patch, and does not write the
\* file: it exists or not as before, holds the same document, and was not
\* rewritten.
C4_UnknownIdLeavesFileAlone ==
    [][\A c \in Clients, id \in TaskIds, patch \in AllPatches :
         (session[c] # 0 /\ NoTaskHas(id) /\ update_task(c, id, patch)) =>
            /\ resp'.status = 404
            /\ resp'.json = [error |-> "Task not found"]
            /\ data_file' = data_file
            /\ load_tasks' = load_tasks]_vars

\* An update has been answered 404 while tasks are stored.
C4_Witness ==
    /\ resp.route = "update_task"
    /\ resp.status = 404
    /\ session[resp.client] # 0
    /\ Len(load_tasks) > 0

\* The endpoints behind @login_required.
ProtectedRoutes == {"logout", "home", "get_tasks", "create_task", "update_task"}

\* The requests of C5: the routes behind @login_required that read or write tasks.
ProtectedRequest(c) ==
    \/ home(c)
    \/ get_tasks(c)
    \/ \E task \in AllTasks : create_task(c, task)
    \/ \E id \in TaskIds, patch \in AllPatches : update_task(c, id, patch)

\* C5: a request to a protected route by a session that is not authenticated
\* is answered with a redirect to login or a 401, and the task file is the
\* same after it as before.
C5_AnonymousIsRejected ==
    [][\A c \in Clients :
         (session[c] = 0 /\ resp'.client = c /\ ProtectedRequest(c)) =>
            /\ resp'.status \in {302, 401}
            /\ resp'.status = 302 => resp'.location = "login"
            /\ data_file' = data_file
            /\ load_tasks' = load_tasks]_vars

\* An anonymous client's create has been redirected to login while another
\* client is logged in and a task is stored.
C5_Witness ==
    /\ resp.route = "create_task"
    /\ resp.status = 302
    /\ session[resp.client] = 0
    /\ \E c \in Clients : session[c] # 0
    /\ Len(load_tasks) > 0

\* The stored hash of `user` is a hash of `password`.
Matches(user, password) ==
    /\ password # None
    /\ \E salt \in Salts : users[user].password = generate_password_hash(password, salt)

\* A row of the User table has this username.
Registered(username) == \E i \in 1..Len(users) : users[i].username = username

\* C6: a session becomes authenticated only by a POST /login whose username is
\* registered and whose password matches that user's stored hash; a POST /login
\* with an unknown username or a wrong password leaves an anonymous session
\* anonymous; GET /logout makes the session anonymous; an anonymous session's
\* protected requests are rejected, and a protected request is carried out
\* only for an authenticated session.
C6_SessionStateMachine ==
    [][\A c \in Clients :
         /\ (session[c] = 0 /\ session'[c] # 0) =>
               /\ resp'.route = "login"
               /\ resp'.client = c
               /\ resp'.status = 302
               /\ \E f \in LoginForms :
                    /\ Registered(f[1])
                    /\ login(c, "POST", f[1], f[2])
                    /\ session'[c] \in 1..Len(users)
                    /\ users[session'[c]].username = f[1]
                    /\ Matches(session'[c], f[2])
         /\ (session[c] = 0 /\ resp'.route = "login" /\ resp'.client = c) =>
               \A f \in LoginForms :
                  (/\ \A i \in 1..Len(users) : users[i].username = f[1] => ~Matches(i, f[2])
                   /\ login(c, "POST", f[1], f[2]))
                  => session'[c] = 0
         /\ (resp'.route = "logout" /\ logout(c)) => session'[c] = 0
         /\ (resp'.client = c /\ resp'.route \in ProtectedRoutes
               /\ (ProtectedRequest(c) \/ logout(c))) =>
               IF session[c] = 0
               THEN /\ resp'.status = 302
                    /\ resp'.location = "login"
                    /\ resp'.flash = UnauthorizedMessage
                    /\ session'[c] = 0
               ELSE resp'.flash # UnauthorizedMessage]_vars

\* A client that logged in and logged out has had a protected request
\* rejected, while the other client is still logged in.
C6_Witness ==
    /\ resp.route = "get_tasks"
    /\ resp.status = 302
    /\ session[resp.client] = 0
    /\ Len(users) > 0
    /\ \E c \in Clients : session[c] # 0

\* No two rows of the User table share a username or an email.
UniqueUsers ==
    \A i, j \in 1..Len(users) :
        i # j => users[i].username # users[j].username /\ users[i].email # users[j].email

\* C7 as stated: no two users share a username or an email, and a POST
\* /register with a registered username adds no user and always flashes
\* "Username already exists".
C7_DuplicateUsernameAlwaysFlashed ==
    [][/\ UniqueUsers'
       /\ \A c \in Clients, f \in RegisterForms :
            (Registered(f[1]) /\ register(c, "POST", f[1], f[2], f[3])) =>
               /\ users' = users
               /\ resp'.flash = "Username already exists"
               /\ resp'.location = "register"]_vars

\* C7 as amended: no two users share a username or an email; a POST /register
\* with a registered username or a registered email adds no user and redirects
\* to register; when all three fields are present and the username is
\* registered, it flashes "Username already exists".
C7_DuplicateNeverRegistered ==
    [][/\ UniqueUsers'
       /\ \A c \in Clients :
            (resp'.route = "register" /\ resp'.client = c) =>
               \A f \in RegisterForms :
                  (/\ Registered(f[1]) \/ \E i \in 1..Len(users) : users[i].email = f[3]
                   /\ register(c, "POST", f[1], f[2], f[3])) =>
                     /\ users' = users
                     /\ resp'.status = 302
                     /\ resp'.location = "register"
                     /\ (Registered(f[1]) /\ f[2] # None /\ f[3] # None) =>
                           resp'.flash = "Username already exists"]_vars

\* Two users are registered and a registration has been refused for its username.
C7_Witness ==
    /\ Len(users) = 2
    /\ resp.route = "register"
    /\ resp.flash = "Username already exists"

\* C8: a POST /register with the three fields present, a username no user has
\* and an email no user has appends exactly one user, with that username and
\* email, and the password it stores is not the password supplied.
C8_RegisterAddsOneHashedUser ==
    [][\A c \in Clients, f \in RegisterForms :
         (/\ resp'.route = "register"
          /\ f[1] # None /\ f[2] # None /\ f[3] # None
          /\ ~Registered(f[1])
          /\ \A i \in 1..Len(users) : users[i].email # f[3]
          /\ register(c, "POST", f[1], f[2], f[3])) =>
            /\ Len(users') = Len(users) + 1
            /\ SubSeq(users', 1, Len(users)) = users
            /\ users'[Len(users')].username = f[1]
            /\ users'[Len(users')].email = f[3]
            /\ users'[Len(users')].password # f[2]
            /\ resp'.flash = "Registration successful!"]_vars

\* A second user has just been registered.
C8_Witness ==
    /\ resp.route = "register"
    /\ resp.flash = "Registration successful!"
    /\ Len(users) = 2

\* C9: a create whose body has no title is answered with a client error and
\* leaves the stored collection as it was.
C9_TitleRequired ==
    [][\A c \in Clients, task \in AllTasks :
         (session[c] # 0 /\ "title" \notin DOMAIN task /\ create_task(c, task)) =>
            /\ resp'.status \in 400..499
            /\ load_tasks' = load_tasks]_vars


C11_LoadAfterSaveRoundTrips ==
    [][/\ data_file.exists => json_dump(load_tasks) = data_file.doc
       /\ ~data_file.exists => load_tasks = <<>>
       /\ (resp'.route = "create_task" /\ resp'.status = 201) =>
             \A c \in Clients, task \in AllTasks :
                create_task(c, task) =>
                   /\ data_file'.exists
                   /\ load_tasks' = Append(load_tasks, resp'.json)
       /\ (resp'.route = "update_task" /\ resp'.status = 200) =>
             \A c \in Clients, id \in TaskIds, patch \in AllPatches :
                update_task(c, id, patch) =>
                   load_tasks' = [load_tasks EXCEPT ![find_task(load_tasks, id)] = resp'.json]]_vars

\* The file has been written with a task whose title is null and a task
\* whose title is a string, and a load returns both.
C11_Witness ==
    /\ data_file.exists
    /\ Len(load_tasks) = 2
    /\ data_file.doc[1]["title"] = <<"null">>
    /\ load_tasks[1]["title"] = None
    /\ load_tasks[2]["title"] = "Spoofed"
    /\ load_tasks[2]["status"] = "pending"

\* C12: no request removes a task: after every request the collection is at
\* least as long as before, and every position that held a task holds it
\* still, unchanged, or, after an update answered 200, as the updated task
\* with every field it had before.
C12_TasksNeverDeleted ==
    [][LET old == load_tasks
           new == load_tasks'
       IN /\ Len(new) >= Len(old)
          /\ \A i \in 1..Len(old) :
                \/ new[i] = old[i]
                \/ /\ resp'.route = "update_task"
                   /\ resp'.status = 200
                   /\ new[i] = resp'.json
                   /\ DOMAIN old[i] \subseteq DOMAIN new[i]]_vars

\* A task has been created after the first task was updated: both are stored,
\* the updated one still first.
C12_Witness ==
    /\ resp.route = "create_task"
    /\ resp.status = 201
    /\ Len(load_tasks) = 2
    /\ load_tasks[1]["status"] = "completed"
    /\ load_tasks[2] = resp.json

\* C15: an update of an id that is stored, with any patch, answers 200 and
\* rewrites the file; the first task with that id gets the patch's value for
\* every field of the patch, fields it did not have included, and keeps the
\* value of every other field; every other task, a later one with the same
\* id included, and the length and order of the collection stay as they
\* were; and the task returned is the task stored.
C15_UpdateMergesIntoFirstMatch ==
    [][\A c \in Clients :
         (resp'.route = "update_task" /\ session[c] # 0) =>
            \A id \in TaskIds, patch \in AllPatches :
               (~NoTaskHas(id) /\ update_task(c, id, patch)) =>
                  LET old == load_tasks
                      new == load_tasks'
                      i == CHOOSE k \in 1..Len(old) :
                              old[k]["id"] = id /\ \A j \in 1..(k - 1) : old[j]["id"] # id
                  IN /\ Len(new) = Len(old)
                     /\ \A j \in 1..Len(old) : j # i => new[j] = old[j]
                     /\ DOMAIN new[i] = DOMAIN old[i] \cup DOMAIN patch
                     /\ \A k \in DOMAIN patch : new[i][k] = patch[k]
                     /\ \A k \in DOMAIN old[i] \ DOMAIN patch : new[i][k] = old[i][k]
                     /\ data_file'.exists
                     /\ data_file'.writes # data_file.writes
                     /\ resp'.status = 200
                     /\ resp'.json = new[i]]_vars

\* Of two tasks created in the same second, with the same id, an update has
\* given the first a new field and a new id, and the second has neither.
C15_Witness ==
    /\ resp.route = "update_task"
    /\ resp.status = 200
    /\ Len(load_tasks) = 2
    /\ resp.json = load_tasks[1]
    /\ load_tasks[1]["created_at"] = strftime_ts(0)
    /\ load_tasks[1]["id"] = OtherId
    /\ "note" \in DOMAIN load_tasks[1]
    /\ load_tasks[2]["id"] = strftime_id(0)
    /\ "note" \notin DOMAIN load_tasks[2]

\* C16 as stated: a create in a second whose id a stored task already has
\* leaves a single task with that id in the collection, the one just created.
C16_CollisionOverwrites ==
    [][\A c \in Clients, task \in AllTasks :
         (/\ resp'.route = "create_task"
          /\ session[c] # 0
          /\ ~NoTaskHas(strftime_id(now))
          /\ create_task(c, task)) =>
            LET new == load_tasks' IN
            /\ Cardinality({i \in 1..Len(new) : new[i]["id"] = strftime_id(now)}) = 1
            /\ \A i \in 1..Len(new) :
                  new[i]["id"] = strftime_id(now) => new[i] = resp'.json]_vars

\* C16 as amended: a create in a second whose id a stored task already has
\* overwrites nothing: it answers 201 with a new task of that id, appends it
\* after the stored tasks, which all stay as they were, so that one more
\* task than before, and at least two, have that id.
C16_CollisionKeepsBoth ==
    [][\A c \in Clients, task \in AllTasks :
         (/\ resp'.route = "create_task"
          /\ session[c] # 0
          /\ ~NoTaskHas(strftime_id(now))
          /\ create_task(c, task)) =>
            LET old == load_tasks
                new == load_tasks'
                SameId(tasks) == {i \in 1..Len(tasks) : tasks[i]["id"] = strftime_id(now)}
            IN /\ resp'.status = 201
               /\ resp'.json["id"] = strftime_id(now)
               /\ Len(new) = Len(old) + 1
               /\ SubSeq(new, 1, Len(old)) = old
               /\ new[Len(new)] = resp'.json
               /\ Cardinality(SameId(new)) = Cardinality(SameId(old)) + 1
               /\ Cardinality(SameId(new)) >= 2]_vars

\* Two creates in the same second have been answered 201: two tasks with the
\* same id are stored, the second of them the one just returned.
C16_Witness ==
    /\ resp.route = "create_task"
    /\ resp.status = 201
    /\ created = 2
    /\ Len(load_tasks) = 2
    /\ load_tasks[1]["id"] = load_tasks[2]["id"]
    /\ load_tasks[2] = resp.json

\* C17: a create by a logged-in client answers 201 with a task of exactly six
\* fields: the title of the body (null when it has none), its description or
\* "", its priority or "medium", the status "pending" and an id made from the
\* clock whatever status and id the body carries, and a created_at read from
\* the clock during the request; that task is appended to the stored
\* collection as its last element, and the tasks stored before keep their
\* values and their order.
C17_CreateBuildsTaskFromInput ==
    [][\A c \in Clients :
         (resp'.route = "create_task" /\ session[c] # 0) =>
            \A task \in AllTasks :
               create_task(c, task) =>
                  LET t == resp'.json IN
                  /\ resp'.status = 201
                  /\ DOMAIN t = {"id", "title", "description", "status", "priority", "created_at"}
                  /\ t["title"] = IF "title" \in DOMAIN task THEN task["title"] ELSE None
                  /\ t["description"] =
                        IF "description" \in DOMAIN task THEN task["description"] ELSE ""
                  /\ t["priority"] = IF "priority" \in DOMAIN task THEN task["priority"] ELSE "medium"
                  /\ t["status"] = "pending"
                  /\ t["id"] = strftime_id(now)
                  /\ t["created_at"] \in {strftime_ts(now), strftime_ts(now')}
                  /\ Len(load_tasks') = Len(load_tasks) + 1
                  /\ SubSeq(load_tasks', 1, Len(load_tasks)) = load_tasks
                  /\ load_tasks'[Len(load_tasks')] = t]_vars

\* A body carrying its own status, id and created_at has been answered 201
\* with a pending task that is stored after a task made from the body {}.
C17_Witness ==
    /\ resp.route = "create_task"
    /\ resp.status = 201
    /\ resp.json["title"] = "Spoofed"
    /\ resp.json["priority"] = "low"
    /\ resp.json["status"] = "pending"
    /\ resp.json["id"] # OtherId
    /\ Len(load_tasks) = 2
    /\ load_tasks[1]["description"] = ""
    /\ load_tasks[1]["priority"] = "medium"
    /\ load_tasks[2] = resp.json

\* The requests of C18: those that only read, or only touch the session.
ReadOrSessionRequest(c) ==
    \/ home(c)
    \/ get_tasks(c)
    \/ health_check(c)
    \/ about(c)
    \/ logout(c)
    \/ \E m \in {"GET", "POST"}, f \in LoginForms : login(c, m, f[1], f[2])

\* C18: GET /, GET /api/tasks, GET /api/health, GET /about, a login that
\* succeeds or fails and a logout leave the task file and the User table as
\* they were; the User table changes only by a registration answered
\* "Registration successful!", which appends one row; and every row of the
\* table stays at its place with its values after every request.
C18_ReadsAndSessionsLeaveStoresAlone ==
    [][/\ \A c \in Clients :
            (/\ resp'.client = c
             /\ resp'.route \in {"home", "get_tasks", "health_check", "about", "logout", "login"}
             /\ ReadOrSessionRequest(c)) =>
               /\ users' = users
               /\ data_file' = data_file
               /\ load_tasks' = load_tasks
       /\ users' # users =>
            /\ resp'.route = "register"
            /\ resp'.flash = "Registration successful!"
            /\ Len(users') = Len(users) + 1
       /\ Len(users') >= Len(users)
       /\ \A i \in 1..Len(users) : users'[i] = users[i]]_vars

\* A client has logged out, after a login, while two users are registered
\* and a task is stored.
C18_Witness ==
    /\ resp.route = "logout"
    /\ resp.status = 302
    /\ resp.flash # UnauthorizedMessage
    /\ session[resp.client] = 0
    /\ Len(users) = 2
    /\ Len(load_tasks) > 0

\* C14: a POST /register with a field absent flashes "All fields are
\* required"; else with a registered username, "Username already exists";
\* else with a registered email, "Email already registered"; each of them
\* redirects to register, and a POST /register is refused in these cases
\* only; one whose commit fails flashes "An error occurred during
\* registration" and redirects to register; and whenever a registration
\* redirects to register the User table is as it was.
C14_FailedRegisterChangesNothing ==
    [][\A c \in Clients :
         (resp'.route = "register" /\ resp'.client = c) =>
            \A f \in RegisterForms :
               LET missing == \E i \in 1..3 : f[i] \in {None, ""}
                   username_exists == Registered(f[1])
                   email_exists == \E i \in 1..Len(users) : users[i].email = f[3]
               IN /\ register(c, "POST", f[1], f[2], f[3]) =>
                       /\ resp'.status = 302
                       /\ resp'.location = "register" <=>
                             (missing \/ username_exists \/ email_exists)
                       /\ missing => resp'.flash = "All fields are required"
                       /\ (~missing /\ username_exists) =>
                             resp'.flash = "Username already exists"
                       /\ (~missing /\ ~username_exists /\ email_exists) =>
                             resp'.flash = "Email already registered"
                       /\ resp'.location = "register" => users' = users
                  /\ register_commit_fails(c, f[1], f[2], f[3]) =>
                       /\ resp'.status = 302
                       /\ resp'.location = "register"
                       /\ resp'.flash = "An error occurred during registration"
                       /\ users' = users]_vars

\* The commit of a second registration has failed: one user is registered.
C14_Witness ==
    /\ resp.route = "register"
    /\ resp.location = "register"
    /\ resp.flash = "An error occurred during registration"
    /\ Len(users) = 1

\* C13: the save of a create writes the list its request loaded with its new
\* task appended, and answers 201 with that task, whatever the file holds by
\* then: the file then has one task more than the request loaded, so a task
\* another request saved between this request's load and its save is no
\* longer stored.
C13_SaveWritesWhatItLoaded ==
    [][\A c \in Clients :
         (resp'.client = c /\ inflight[c].pc = "loaded" /\ create_task_save(c)) =>
            /\ resp'.status = 201
            /\ inflight'[c].answer = resp'.json
            /\ load_tasks' = Append(inflight[c].tasks, resp'.json)
            /\ Len(load_tasks) > Len(inflight[c].tasks) => Len(load_tasks') <= Len(load_tasks)]_vars

\* Two creates have each loaded the empty list before the other saved, both
\* have been answered 201 with different tasks, and the file holds one task:
\* the task of the create that saved last.
C13_Witness ==
    /\ created = 2
    /\ inflight["c1"].pc = "answered"
    /\ inflight["c2"].pc = "answered"
    /\ inflight["c1"].answer["title"] # inflight["c2"].answer["title"]
    /\ resp.status = 201
    /\ Len(load_tasks) = 1
    /\ load_tasks[1] = resp.json
    /\ load_tasks[1] \in {inflight["c1"].answer, inflight["c2"].answer}

====
